---- MODULE Spec2Model ----
(***************************************************************************)
(* The Database facade of src/src/database.rs: one method per SQL          *)
(* statement over the tables torrust_users, torrust_torrents,              *)
(* torrust_tracker_keys, torrust_categories and torrust_pages.             *)
(*                                                                         *)
(* Every method awaits one statement, except insert_page, which awaits the *)
(* listing query of get_pages and then its INSERT: it is two steps, and    *)
(* other calls may run between them.  Every statement may fail in the      *)
(* driver (the Err branch of every match in the source); a failed          *)
(* statement changes no table.                                             *)
(*                                                                         *)
(* Each statement reads or writes exactly one table, so the tables evolve  *)
(* independently: SpecUsers, SpecTorrents, SpecKeys and SpecPages run the  *)
(* operations of one table each, and Spec runs all of them together.       *)
(***************************************************************************)
EXTENDS Integers, Sequences, FiniteSets

VARIABLES
    users,          \* torrust_users: set of rows [rowid, username, email]
    torrents,       \* torrust_torrents: set of rows keyed by torrent_id
    tracker_keys,   \* torrust_tracker_keys: rows [user_id, key, valid_until], in insertion order
    categories,     \* torrust_categories: set of names
    pages,          \* torrust_pages: rows [route, title, description, creation_date], in insertion order
    now,            \* what current_time() returns
    call,           \* per caller: the insert_page call in progress or last returned
    last,           \* the most recent completed single-statement call and what it returned
    deleted,        \* history: username/email of users deleted and not stored again since
    fresh,          \* history: torrent rows as inserted, with no update_tracker_info call since
    steps           \* number of steps taken (bounded in Spec only)

tables == <<users, torrents, tracker_keys, categories, pages>>
vars == <<users, torrents, tracker_keys, categories, pages, now, call, last, deleted, fresh, steps>>

\* ---------------------------------------------------------------- bounds

MaxRowId == 4
MaxTorrents == 3
MaxKeys == 3
MaxPages == 3
MaxTime == 2
MaxSteps == 3

\* ----------------------------------------------------------- input values

Usernames == {"alice", "bob"}
Emails == {"alice@example.org", "bob@example.org"}
RowIds == 1..MaxRowId
InfoHashes == {"h1", "h2"}
\* uploader, title, category id, description and file size of an upload
TorrentMetas ==
    { [uploader |-> "alice", title |-> "t1", category_id |-> 1, description |-> "d1", file_size |-> 100],
      [uploader |-> "bob", title |-> "t2", category_id |-> 2, description |-> "d2", file_size |-> 200] }
\* <<seeders, leechers>>
TrackerStats == { <<0, 2>>, <<1, 3>> }
TorrentIds == 1..(MaxTorrents + 1)
UserIds == {1, 2}
KeyStrings == {"k1", "k2"}
CategoryNames == {"movies", "tv"}
Routes == {"/about", "/rules"}
\* title and optional description of a page
PageContents ==
    { [title |-> "About", description |-> [tag |-> "None"]],
      [title |-> "Rules", description |-> [tag |-> "Some", val |-> "house rules"]] }

\* ------------------------------------------------- Option, Result, sqlx

Some(x) == [tag |-> "Some", val |-> x]
None == [tag |-> "None"]
Ok(x) == [tag |-> "Ok", val |-> x]
Err(e) == [tag |-> "Err", err |-> e]
Unit == "()"

\* fetch_one over the rows a statement selects: a driver failure, RowNotFound
\* on no row, else the first row (SQL fixes no order: any of the rows).
FetchOne(rows, ok) ==
    IF ~ok THEN { Err("Driver") }
    ELSE IF rows = {} THEN { Err("RowNotFound") }
    ELSE { Ok(r) : r \in rows }

\* fetch_all: a driver failure, else all the rows.
FetchAll(rows, ok) == IF ok THEN Ok(rows) ELSE Err("Driver")

\* match res { Ok(v) => Some(v), _ => None }
OptionOf(res) == IF res.tag = "Ok" THEN Some(res.val) ELSE None

Range(s) == { s[i] : i \in 1..Len(s) }

\* current_time() as i64
current_time == now

\* ------------------------------------------------------------------ Init

NoCall == [pc |-> "idle", route |-> "-", title |-> "-", description |-> None,
           listing |-> "-", overlap |-> FALSE, ret |-> None]
Procs == {1, 2}

Init ==
    /\ users = {}
    /\ torrents = {}
    /\ tracker_keys = << >>
    /\ categories = {"movies"}
    /\ pages = << >>
    /\ now = 0
    /\ call = [p \in Procs |-> NoCall]
    /\ last = [op |-> "none"]
    /\ deleted = {}
    /\ fresh = {}
    /\ steps = 0

\* ----------------------------------------------------------------- users

\* (variant: the lookup by username compares the email column)
UsersWithUsername_ByEmail(username) == { u \in users : u.email = username }

\* "SELECT * FROM torrust_users WHERE username = ?"
UsersWithUsername(username) == { u \in users : u.username = username }

\* "SELECT * FROM torrust_users WHERE email = ?"
UsersWithEmail(email) == { u \in users : u.email = email }

get_user_with_username_ret(username, ok) ==
    { OptionOf(res) : res \in FetchOne(UsersWithUsername(username), ok) }

get_user_with_email_ret(email, ok) ==
    { OptionOf(res) : res \in FetchOne(UsersWithEmail(email), ok) }

get_user_with_username(username) ==
    \E ok \in BOOLEAN : \E r \in get_user_with_username_ret(username, ok) :
        /\ last' = [op |-> "get_user_with_username", arg |-> username, ok |-> ok, ret |-> r]
        /\ UNCHANGED <<tables, now, call, deleted, fresh>>

get_user_with_email(email) ==
    \E ok \in BOOLEAN : \E r \in get_user_with_email_ret(email, ok) :
        /\ last' = [op |-> "get_user_with_email", arg |-> email, ok |-> ok, ret |-> r]
        /\ UNCHANGED <<tables, now, call, deleted, fresh>>

\* (variant: the DELETE matches no row)
UsersAfterDelete_NoRow(user_id) == users

\* (variant: the DELETE has no WHERE clause)
UsersAfterDelete_AllRows(user_id) == {}

\* "DELETE FROM torrust_users WHERE rowid = ?"
UsersAfterDelete(user_id) == { u \in users : u.rowid # user_id }

delete_user(user_id) ==
    \E ok \in BOOLEAN :
        /\ users' = IF ok THEN UsersAfterDelete(user_id) ELSE users
        /\ last' = [op |-> "delete_user", arg |-> user_id, ok |-> ok,
                    ret |-> IF ok THEN Ok(Unit) ELSE Err("sqlx")]
        /\ deleted' = IF ok
                      THEN deleted \cup { [username |-> u.username, email |-> u.email] :
                                            u \in { v \in users : v.rowid = user_id } }
                      ELSE deleted
        /\ UNCHANGED <<torrents, tracker_keys, categories, pages, now, call, fresh>>

\* The row id the storage gives a new row: one more than the largest in use.
NextRowId == IF users = {} THEN 1
             ELSE (CHOOSE m \in { u.rowid : u \in users } : \A u \in users : u.rowid <= m) + 1

\* A user row is stored by the registration code, which is outside this file;
\* usernames and emails are unique among the stored rows.
StoreUser(username, email) ==
    /\ \A u \in users : u.username # username /\ u.email # email
    /\ NextRowId <= MaxRowId
    /\ users' = users \cup { [rowid |-> NextRowId, username |-> username, email |-> email] }
    /\ deleted' = { d \in deleted : d.username # username /\ d.email # email }
    /\ last' = [op |-> "StoreUser"]
    /\ UNCHANGED <<torrents, tracker_keys, categories, pages, now, call, fresh>>

\* -------------------------------------------------------------- torrents

\* The torrent_id the storage assigns (RETURNING torrent_id): rows are never
\* deleted, so it is one more than the number of rows.
NextTorrentId == Cardinality(torrents) + 1

\* (variant: seeders and leechers bound in the wrong order)
NewTorrentRow_Swapped(torrent_id, username, info_hash, title, category_id, description, file_size, seeders, leechers) ==
    [torrent_id |-> torrent_id, uploader |-> username, info_hash |-> info_hash,
     title |-> title, category_id |-> category_id, description |-> description,
     upload_date |-> current_time, file_size |-> file_size,
     seeders |-> leechers, leechers |-> seeders]

\* The row of the INSERT: $1..$9 in the order of the column list.
NewTorrentRow(torrent_id, username, info_hash, title, category_id, description, file_size, seeders, leechers) ==
    [torrent_id |-> torrent_id, uploader |-> username, info_hash |-> info_hash,
     title |-> title, category_id |-> category_id, description |-> description,
     upload_date |-> current_time, file_size |-> file_size,
     seeders |-> seeders, leechers |-> leechers]

insert_torrent_and_get_id(username, info_hash, title, category_id, description, file_size, seeders, leechers) ==
    /\ Cardinality(torrents) < MaxTorrents
    /\ \E ok \in BOOLEAN :
        /\ torrents' = IF ok
                       THEN torrents \cup { NewTorrentRow(NextTorrentId, username, info_hash, title,
                                                          category_id, description, file_size, seeders, leechers) }
                       ELSE torrents
        /\ last' = [op |-> "insert_torrent_and_get_id", ok |-> ok,
                    ret |-> IF ok THEN Ok(NextTorrentId) ELSE Err("sqlx")]
        /\ fresh' = IF ok
                    THEN fresh \cup { [torrent_id |-> NextTorrentId, uploader |-> username,
                                       info_hash |-> info_hash, title |-> title,
                                       category_id |-> category_id, description |-> description,
                                       file_size |-> file_size, seeders |-> seeders,
                                       leechers |-> leechers] }
                    ELSE fresh
    /\ UNCHANGED <<users, tracker_keys, categories, pages, now, call, deleted>>

\* "SELECT * FROM torrust_torrents WHERE torrent_id = ?"
TorrentsWithId(torrent_id) == { t \in torrents : t.torrent_id = torrent_id }

get_torrent_by_id_ret(torrent_id, ok) ==
    { IF res.tag = "Ok" THEN Ok(res.val) ELSE Err("TorrentNotFound") :
        res \in FetchOne(TorrentsWithId(torrent_id), ok) }

get_torrent_by_id(torrent_id) ==
    \E ok \in BOOLEAN : \E r \in get_torrent_by_id_ret(torrent_id, ok) :
        /\ last' = [op |-> "get_torrent_by_id", arg |-> torrent_id, ok |-> ok, ret |-> r]
        /\ UNCHANGED <<tables, now, call, deleted, fresh>>

\* "SELECT torrent_id, info_hash FROM torrust_torrents"
TorrentCompact == { [torrent_id |-> t.torrent_id, info_hash |-> t.info_hash] : t \in torrents }

get_all_torrent_ids ==
    \E ok \in BOOLEAN :
        /\ last' = [op |-> "get_all_torrent_ids", ok |-> ok,
                    ret |-> IF ok THEN FetchAll(TorrentCompact, ok) ELSE Err(Unit)]
        /\ UNCHANGED <<tables, now, call, deleted, fresh>>

\* (variant: the UPDATE has no WHERE clause)
TorrentsAfterUpdate_AllRows(info_hash, seeders, leechers) ==
    { [t EXCEPT !.seeders = seeders, !.leechers = leechers] : t \in torrents }

\* "UPDATE torrust_torrents SET seeders = $1, leechers = $2 WHERE info_hash = $3"
TorrentsAfterUpdate(info_hash, seeders, leechers) ==
    { IF t.info_hash = info_hash
      THEN [t EXCEPT !.seeders = seeders, !.leechers = leechers]
      ELSE t : t \in torrents }

update_tracker_info(info_hash, seeders, leechers) ==
    \E ok \in BOOLEAN :
        /\ torrents' = IF ok THEN TorrentsAfterUpdate(info_hash, seeders, leechers) ELSE torrents
        /\ last' = [op |-> "update_tracker_info",
                    arg |-> [info_hash |-> info_hash, seeders |-> seeders, leechers |-> leechers],
                    ok |-> ok, ret |-> IF ok THEN Ok(Unit) ELSE Err(Unit)]
        /\ fresh' = {}
        /\ UNCHANGED <<users, tracker_keys, categories, pages, now, call, deleted>>

\* ---------------------------------------------------------- tracker keys

WEEK == 604800
\* expiry times around the thresholds now + WEEK of the times 0..MaxTime
ValidUntils == { WEEK, WEEK + 1, WEEK + 2 }

\* (variant: valid_until >= $2)
ValidKeysOf_Inclusive(user_id, current_time_plus_week) ==
    { [key |-> k.key, valid_until |-> k.valid_until] :
        k \in { r \in Range(tracker_keys) :
                  r.user_id = user_id /\ r.valid_until >= current_time_plus_week } }

\* "SELECT key, valid_until FROM torrust_tracker_keys
\*  WHERE user_id = $1 AND valid_until > $2"
ValidKeysOf(user_id, current_time_plus_week) ==
    { [key |-> k.key, valid_until |-> k.valid_until] :
        k \in { r \in Range(tracker_keys) :
                  r.user_id = user_id /\ r.valid_until > current_time_plus_week } }

get_valid_tracker_key_ret(user_id, ok) ==
    LET current_time_plus_week == current_time + WEEK
    IN  { OptionOf(res) : res \in FetchOne(ValidKeysOf(user_id, current_time_plus_week), ok) }

get_valid_tracker_key(user_id) ==
    \E ok \in BOOLEAN : \E r \in get_valid_tracker_key_ret(user_id, ok) :
        /\ last' = [op |-> "get_valid_tracker_key", arg |-> user_id, ok |-> ok,
                    at |-> now, ret |-> r]
        /\ UNCHANGED <<tables, now, call, deleted, fresh>>

\* "INSERT INTO torrust_tracker_keys (user_id, key, valid_until) VALUES ($1, $2, $3)"
issue_tracker_key(tracker_key, user_id) ==
    /\ Len(tracker_keys) < MaxKeys
    /\ \E ok \in BOOLEAN :
        /\ tracker_keys' = IF ok
                           THEN Append(tracker_keys, [user_id |-> user_id, key |-> tracker_key.key,
                                                      valid_until |-> tracker_key.valid_until])
                           ELSE tracker_keys
        /\ last' = [op |-> "issue_tracker_key", ok |-> ok,
                    ret |-> IF ok THEN Ok(Unit) ELSE Err("InternalServerError")]
    /\ UNCHANGED <<users, torrents, categories, pages, now, call, deleted, fresh>>

\* current_time() advances between calls.
Tick ==
    /\ now < MaxTime
    /\ now' = now + 1
    /\ UNCHANGED <<tables, call, last, deleted, fresh>>

\* ------------------------------------------------------------ categories

\* "SELECT name FROM torrust_categories WHERE name = ?"
verify_category(category) ==
    \E ok \in BOOLEAN :
      \E res \in FetchOne({ [name |-> c] : c \in { n \in categories : n = category } }, ok) :
        /\ last' = [op |-> "verify_category", arg |-> category, ok |-> ok,
                    ret |-> IF res.tag = "Ok" THEN Some(res.val.name) ELSE None]
        /\ UNCHANGED <<tables, now, call, deleted, fresh>>

\* ----------------------------------------------------------------- pages

\* (variant: a failed listing becomes the empty list)
get_pages_ret_Collapsed(ok) == IF ok THEN Some(pages) ELSE Some(<< >>)

\* "SELECT * FROM torrust_pages": None on a failed query, else the list.
get_pages_ret(ok) == OptionOf(FetchAll(pages, ok))

get_pages ==
    \E ok \in BOOLEAN :
        /\ last' = [op |-> "get_pages", ok |-> ok, ret |-> get_pages_ret(ok)]
        /\ UNCHANGED <<tables, now, call, deleted, fresh>>

\* "SELECT * FROM torrust_pages WHERE route=?"
PagesWithRoute(route) == { pg \in Range(pages) : pg.route = route }

get_page_by_route_ret(route, ok) ==
    { OptionOf(res) : res \in FetchOne(PagesWithRoute(route), ok) }

get_page_by_route(route) ==
    \E ok \in BOOLEAN : \E r \in get_page_by_route_ret(route, ok) :
        /\ last' = [op |-> "get_page_by_route", arg |-> route, ok |-> ok, ret |-> r]
        /\ UNCHANGED <<tables, now, call, deleted, fresh>>

\* (variant: the route is compared with the title column)
RouteListed_ByTitle(listed, route) == \E i \in 1..Len(listed) : listed[i].title = route

\* pages.iter().any(|i| i.route == route)
RouteListed(listed, route) == \E i \in 1..Len(listed) : listed[i].route = route

\* (variant: a failed listing rejects the insert)
RouteCheck_FailClosed(listed, route) ==
    IF listed.tag = "Some"
    THEN IF RouteListed(listed.val, route) THEN Some(Err("PageAlreadyExists")) ELSE None
    ELSE Some(Err("PageAlreadyExists"))

\* The early return of insert_page, if any: PageAlreadyExists when get_pages
\* gave a list and the list holds the route; none when the list does not hold
\* it, and none when get_pages gave None.
RouteCheck(listed, route) ==
    IF listed.tag = "Some"
    THEN IF RouteListed(listed.val, route) THEN Some(Err("PageAlreadyExists")) ELSE None
    ELSE None

InProgress == { q \in Procs : call[q].pc = "insert" }

\* insert_page up to its INSERT: the listing query and the route check.
\* (A call is started only while the table has room for its row.)
insert_page_check(p, route, title, description) ==
    /\ call[p].pc = "idle"
    /\ Len(pages) + Cardinality(InProgress) < MaxPages
    /\ \E ok \in BOOLEAN :
        LET early == RouteCheck(get_pages_ret(ok), route)
            listing == IF ok THEN "ok" ELSE "failed"
        IN  call' = [q \in Procs |->
                       IF q = p
                       THEN IF early # None
                            THEN [pc |-> "idle", route |-> route, title |-> "-",
                                  description |-> None, listing |-> listing,
                                  overlap |-> FALSE, ret |-> early]
                            ELSE [pc |-> "insert", route |-> route, title |-> title,
                                  description |-> description, listing |-> listing,
                                  overlap |-> (InProgress # {}), ret |-> None]
                       ELSE IF call[q].pc = "insert"
                            THEN [call[q] EXCEPT !.overlap = TRUE]
                            ELSE call[q]]
    /\ last' = [op |-> "insert_page", proc |-> p]
    /\ UNCHANGED <<tables, now, deleted, fresh>>

\* (variant: INSERT OR IGNORE on a stored route)
PagesAfterInsert_IgnoreStored(route, title, description) ==
    IF \E i \in 1..Len(pages) : pages[i].route = route
    THEN pages
    ELSE Append(pages, [route |-> route, title |-> title, description |-> description,
                        creation_date |-> current_time])

\* "INSERT INTO torrust_pages (route, title, description, creation_date)
\*  VALUES ($1, $2, $3, $4)"
PagesAfterInsert(route, title, description) ==
    Append(pages, [route |-> route, title |-> title, description |-> description,
                   creation_date |-> current_time])

\* insert_page from its INSERT on.
insert_page_insert(p) ==
    /\ call[p].pc = "insert"
    /\ \E ok \in BOOLEAN :
        /\ pages' = IF ok
                    THEN PagesAfterInsert(call[p].route, call[p].title, call[p].description)
                    ELSE pages
        /\ call' = [call EXCEPT ![p] =
                      [pc |-> "idle", route |-> call[p].route, title |-> "-",
                       description |-> None, listing |-> call[p].listing,
                       overlap |-> FALSE,
                       ret |-> Some(IF ok THEN Ok(Unit) ELSE Err("InternalServerError"))]]
    /\ last' = [op |-> "insert_page", proc |-> p]
    /\ UNCHANGED <<users, torrents, tracker_keys, categories, now, deleted, fresh>>

\* ------------------------------------------------------ specifications
\* One table's operations, from the empty database.
NextUsers ==
    \/ UNCHANGED steps /\ \E username \in Usernames : get_user_with_username(username)
    \/ UNCHANGED steps /\ \E email \in Emails : get_user_with_email(email)
    \/ UNCHANGED steps /\ \E user_id \in RowIds : delete_user(user_id)
    \/ UNCHANGED steps /\ \E username \in Usernames, email \in Emails : StoreUser(username, email)

SpecUsers == Init /\ [][NextUsers]_vars

NextTorrents ==
    \/ UNCHANGED steps /\ \E m \in TorrentMetas, info_hash \in InfoHashes, st \in TrackerStats :
          insert_torrent_and_get_id(m.uploader, info_hash, m.title, m.category_id,
                                    m.description, m.file_size, st[1], st[2])
    \/ UNCHANGED steps /\ \E torrent_id \in TorrentIds : get_torrent_by_id(torrent_id)
    \/ UNCHANGED steps /\ get_all_torrent_ids
    \/ UNCHANGED steps /\ \E info_hash \in InfoHashes, st \in TrackerStats : update_tracker_info(info_hash, st[1], st[2])

SpecTorrents == Init /\ [][NextTorrents]_vars

NextKeys ==
    \/ UNCHANGED steps /\ \E user_id \in UserIds : get_valid_tracker_key(user_id)
    \/ UNCHANGED steps /\ \E user_id \in UserIds, key \in KeyStrings, valid_until \in ValidUntils :
          issue_tracker_key([key |-> key, valid_until |-> valid_until], user_id)
    \/ UNCHANGED steps /\ Tick

SpecKeys == Init /\ [][NextKeys]_vars

NextPages ==
    \/ UNCHANGED steps /\ get_pages
    \/ UNCHANGED steps /\ \E route \in Routes : get_page_by_route(route)
    \/ UNCHANGED steps /\ \E p \in Procs, route \in Routes, c \in PageContents :
          insert_page_check(p, route, c.title, c.description)
    \/ UNCHANGED steps /\ \E p \in Procs : insert_page_insert(p)

SpecPages == Init /\ [][NextPages]_vars

\* All operations together, MaxSteps steps from a database that holds a row
\* in every table.
Counted == steps < MaxSteps /\ steps' = steps + 1

InitAll ==
    /\ users = { [rowid |-> 1, username |-> "alice", email |-> "alice@example.org"] }
    /\ torrents = { [torrent_id |-> 1, uploader |-> "alice", info_hash |-> "h1",
                     title |-> "t1", category_id |-> 1, description |-> "d1",
                     upload_date |-> 0, file_size |-> 100, seeders |-> 0, leechers |-> 2] }
    /\ tracker_keys = << [user_id |-> 1, key |-> "k1", valid_until |-> WEEK + 1] >>
    /\ categories = {"movies"}
    /\ pages = << [route |-> "/about", title |-> "About", description |-> None,
                   creation_date |-> 0] >>
    /\ now = 0
    /\ call = [p \in Procs |-> NoCall]
    /\ last = [op |-> "none"]
    /\ deleted = {}
    /\ fresh = {}
    /\ steps = 0

Next ==
    \/ Counted /\ \E username \in Usernames : get_user_with_username(username)
    \/ Counted /\ \E email \in Emails : get_user_with_email(email)
    \/ Counted /\ \E user_id \in RowIds : delete_user(user_id)
    \/ Counted /\ \E username \in Usernames, email \in Emails : StoreUser(username, email)
    \/ Counted /\ \E m \in TorrentMetas, info_hash \in InfoHashes, st \in TrackerStats :
          insert_torrent_and_get_id(m.uploader, info_hash, m.title, m.category_id,
                                    m.description, m.file_size, st[1], st[2])
    \/ Counted /\ \E torrent_id \in TorrentIds : get_torrent_by_id(torrent_id)
    \/ Counted /\ get_all_torrent_ids
    \/ Counted /\ \E info_hash \in InfoHashes, st \in TrackerStats : update_tracker_info(info_hash, st[1], st[2])
    \/ Counted /\ \E user_id \in UserIds : get_valid_tracker_key(user_id)
    \/ Counted /\ \E user_id \in UserIds, key \in KeyStrings, valid_until \in ValidUntils :
          issue_tracker_key([key |-> key, valid_until |-> valid_until], user_id)
    \/ Counted /\ Tick
    \/ Counted /\ \E category \in CategoryNames : verify_category(category)
    \/ Counted /\ get_pages
    \/ Counted /\ \E route \in Routes : get_page_by_route(route)
    \/ Counted /\ \E p \in Procs, route \in Routes, c \in PageContents :
          insert_page_check(p, route, c.title, c.description)
    \/ Counted /\ \E p \in Procs : insert_page_insert(p)

Spec == InitAll /\ [][Next]_vars

\* ================================================================ claims

\* ------------------------------------------------------------ C7 (users)

\* C7: a lookup by username (by email) whose query succeeds returns the
\* stored row with that username (email) when there is one; it returns empty
\* when no stored row has it, and also whenever the query fails.
C7_LookupReturnsStoredRow ==
    /\ last.op = "get_user_with_username" =>
        IF last.ok /\ (\E u \in users : u.username = last.arg)
        THEN \A u \in users : u.username = last.arg => last.ret = Some(u)
        ELSE last.ret = None
    /\ last.op = "get_user_with_email" =>
        IF last.ok /\ (\E u \in users : u.email = last.arg)
        THEN \A u \in users : u.email = last.arg => last.ret = Some(u)
        ELSE last.ret = None

\* A lookup by username found its row among two stored users.
C7_Witness ==
    /\ last.op = "get_user_with_username"
    /\ last.ok
    /\ Cardinality(users) = 2
    /\ \E u \in users : u.username = last.arg /\ last.ret = Some(u)

\* ------------------------------------------------------------ C6 (users)

C6_Gone ==
    \A d \in deleted :
        /\ (last.op = "get_user_with_username" /\ last.arg = d.username) => last.ret = None
        /\ (last.op = "get_user_with_email" /\ last.arg = d.email) => last.ret = None

C6_OthersRemain ==
    (last'.op = "delete_user" /\ last'.ret = Ok(Unit)) =>
        \A u \in users : u.rowid # last'.arg =>
            /\ u \in users'
            /\ get_user_with_username_ret(u.username, TRUE)' = { Some(u) }
            /\ get_user_with_email_ret(u.email, TRUE)' = { Some(u) }

\* C6: once delete_user returned Ok for the row id of a stored user, every
\* lookup by that user's username or email returns empty until a user with
\* that username or email is stored again; the delete leaves every other user
\* stored and retrievable by username and by email.
C6_DeletedUserIsGone == [](C6_Gone) /\ [][C6_OthersRemain]_vars

\* A user was deleted, another is still stored, and a successful lookup by the
\* deleted user's username came back empty.
C6_Witness ==
    /\ last.op = "get_user_with_username"
    /\ last.ok
    /\ last.ret = None
    /\ \E d \in deleted : d.username = last.arg
    /\ users # {}

\* --------------------------------------------------------- C4 (torrents)

C4_Updated(t, a) == [t EXCEPT !.seeders = a.seeders, !.leechers = a.leechers]

C4_Effect ==
    /\ last'.ret = Ok(Unit)
    /\ torrents' = { IF t.info_hash = last'.arg.info_hash THEN C4_Updated(t, last'.arg) ELSE t :
                       t \in torrents }
    /\ \A t \in torrents :
          t.info_hash = last'.arg.info_hash =>
              get_torrent_by_id_ret(t.torrent_id, TRUE)' = { Ok(C4_Updated(t, last'.arg)) }

\* C4 as stated: every update_tracker_info call returns Ok, sets the counts of
\* the torrents with the info hash and changes no other torrent.
C4_Original == [][last'.op = "update_tracker_info" => C4_Effect]_vars

\* C4 as amended: an update_tracker_info call whose UPDATE succeeds returns
\* Ok, sets the seeder and leecher counts of every torrent with the info hash
\* (which the next successful get_torrent_by_id returns) and changes no other
\* torrent, none at all when no torrent has the info hash; a call whose UPDATE
\* fails returns Err(()) and changes no torrent.
C4_UpdateTrackerInfo ==
    [][last'.op = "update_tracker_info" =>
          IF last'.ok
          THEN C4_Effect
          ELSE last'.ret = Err(Unit) /\ torrents' = torrents]_vars

\* A successful update set the counts of one torrent and left a torrent with
\* another info hash as it was.
C4_Witness ==
    /\ last.op = "update_tracker_info"
    /\ last.ok
    /\ \E t \in torrents : t.info_hash = last.arg.info_hash /\ t.seeders = last.arg.seeders
    /\ \E t \in torrents : t.info_hash # last.arg.info_hash /\ t.seeders # last.arg.seeders

\* --------------------------------------------------------- C5 (torrents)

C5_SameFields(t, f) ==
    /\ t.uploader = f.uploader
    /\ t.info_hash = f.info_hash
    /\ t.title = f.title
    /\ t.category_id = f.category_id
    /\ t.description = f.description
    /\ t.file_size = f.file_size
    /\ t.seeders = f.seeders
    /\ t.leechers = f.leechers

C5_Miss ==
    (last.op = "get_torrent_by_id" /\ \A t \in torrents : t.torrent_id # last.arg) =>
        last.ret = Err("TorrentNotFound")

\* C5 as stated: get_torrent_by_id with the id an insert returned, with no
\* update_tracker_info since, always returns a record with the inserted
\* values; with the id of no stored torrent it returns TorrentNotFound.
C5_Original ==
    /\ last.op = "get_torrent_by_id" =>
          \A f \in fresh : f.torrent_id = last.arg =>
              last.ret.tag = "Ok" /\ C5_SameFields(last.ret.val, f)
    /\ C5_Miss

\* C5 as amended: get_torrent_by_id with the id an insert returned, with no
\* update_tracker_info since, returns a record with the inserted values when
\* its query succeeds, and TorrentNotFound when its query fails; with the id
\* of no stored torrent it returns TorrentNotFound.
C5_RoundTrip ==
    /\ last.op = "get_torrent_by_id" =>
          \A f \in fresh : f.torrent_id = last.arg =>
              IF last.ok
              THEN last.ret.tag = "Ok" /\ C5_SameFields(last.ret.val, f)
              ELSE last.ret = Err("TorrentNotFound")
    /\ C5_Miss

\* A successful get_torrent_by_id of a torrent just inserted, among two.
C5_Witness ==
    /\ last.op = "get_torrent_by_id"
    /\ last.ok
    /\ last.ret.tag = "Ok"
    /\ \E f \in fresh : f.torrent_id = last.arg
    /\ Cardinality(torrents) = 2

\* ----------------------------------------------------- C3 (tracker keys)

\* the stored keys of the user the last get_valid_tracker_key asked for
C3_KeysOfUser == { k \in Range(tracker_keys) : k.user_id = last.arg }
C3_Threshold == last.at + 604800

C3_Returned(k) == last.ret = Some([key |-> k.key, valid_until |-> k.valid_until])

\* whatever is returned is a key of the user that expires after the threshold
C3_OnlyValid ==
    last.ret # None => \E k \in C3_KeysOfUser : k.valid_until > C3_Threshold /\ C3_Returned(k)

\* C3 as stated: get_valid_tracker_key returns empty when every key of the
\* user expires before now + 604800, always returns one of the user's keys
\* expiring after now + 604800 when one is stored, and never returns another
\* user's key or a key expiring at or before now + 604800.
C3_Original ==
    last.op = "get_valid_tracker_key" =>
        /\ (\A k \in C3_KeysOfUser : k.valid_until < C3_Threshold) => last.ret = None
        /\ (\E k \in C3_KeysOfUser : k.valid_until > C3_Threshold) => last.ret # None
        /\ C3_OnlyValid

\* C3 as amended: the same, except that a key of the user expiring after
\* now + 604800 is returned when the query succeeds; when the query fails the
\* result is empty although such a key is stored.
C3_ValidTrackerKey ==
    last.op = "get_valid_tracker_key" =>
        /\ (\A k \in C3_KeysOfUser : k.valid_until < C3_Threshold) => last.ret = None
        /\ (\E k \in C3_KeysOfUser : k.valid_until > C3_Threshold) =>
              IF last.ok THEN last.ret # None ELSE last.ret = None
        /\ C3_OnlyValid

\* A key was returned to a user who also holds a key expiring exactly at the
\* threshold, while the other user holds a key too.
C3_Witness ==
    /\ last.op = "get_valid_tracker_key"
    /\ last.ok
    /\ last.ret # None
    /\ \E k \in C3_KeysOfUser : k.valid_until = C3_Threshold
    /\ last.at > 0

\* ------------------------------------------------------------ pages

RowsWithRoute(route) == { i \in 1..Len(pages) : pages[i].route = route }

\* caller p runs the listing query and the route check of a new call
C_CheckStep(p) == call[p].pc = "idle" /\ call'[p] # call[p]

\* caller p runs the INSERT of its call
C_InsertStep(p) == call[p].pc = "insert" /\ call'[p].pc = "idle"

\* the row the call in progress of caller p inserts
C_Row(p) == [route |-> call[p].route, title |-> call[p].title,
             description |-> call[p].description, creation_date |-> now]

\* ------------------------------------------------------------ C1 (pages)

C1_Check(p) ==
    (/\ C_CheckStep(p)
     /\ \A q \in Procs : call[q].pc = "idle"
     /\ call'[p].listing = "ok") =>
        /\ pages' = pages
        /\ IF RowsWithRoute(call'[p].route) # {}
           THEN call'[p].pc = "idle" /\ call'[p].ret = Some(Err("PageAlreadyExists"))
           ELSE call'[p].pc = "insert" /\ call'[p].ret = None

C1_Insert(p) ==
    (/\ C_InsertStep(p)
     /\ ~call[p].overlap
     /\ call[p].listing = "ok"
     /\ call'[p].ret # Some(Err("InternalServerError"))) =>
        /\ call'[p].ret = Some(Ok(Unit))
        /\ RowsWithRoute(call[p].route) = {}
        /\ pages' = Append(pages, C_Row(p))
        /\ get_page_by_route_ret(call[p].route, TRUE)' = { Some(C_Row(p)) }

\* C1: an insert_page call that no other insert_page call overlaps and whose
\* statements do not fail returns PageAlreadyExists and leaves the pages
\* unchanged when a page with the route is stored; otherwise it returns Ok and
\* appends exactly one page, with the route, title and description given, the
\* only page with that route, which a following get_page_by_route returns.
C1_InsertPage == [][\A p \in Procs : C1_Check(p) /\ C1_Insert(p)]_vars

\* One caller alone inserted a page after a successful check, and its next
\* call with the same route was rejected.
C1_Witness ==
    /\ call[1].ret = Some(Err("PageAlreadyExists"))
    /\ call[2] = NoCall
    /\ Len(pages) = 1
    /\ pages[1].route = call[1].route
    /\ last = [op |-> "insert_page", proc |-> 1]

\* ------------------------------------------------------------ C2 (pages)

\* C2: nothing holds a caller between its route check and its INSERT, and an
\* INSERT the storage accepts stores its page whether or not the route is
\* stored by then: whenever two callers have returned Ok for the same route,
\* two pages with that route are stored.
C2_RaceStoresBoth ==
    /\ \A p \in Procs : call[p].pc = "insert" => ENABLED insert_page_insert(p)
    /\ \A p, q \in Procs :
          (/\ p # q
           /\ call[p].route = call[q].route
           /\ call[p].ret = Some(Ok(Unit))
           /\ call[q].ret = Some(Ok(Unit))) =>
              Cardinality(RowsWithRoute(call[p].route)) >= 2

\* Both callers passed a successful route check for the same route, both
\* returned Ok, and the route is stored twice.
C2_Witness ==
    /\ call[1].listing = "ok" /\ call[1].ret = Some(Ok(Unit))
    /\ call[2].listing = "ok" /\ call[2].ret = Some(Ok(Unit))
    /\ call[1].route = call[2].route
    /\ Cardinality(RowsWithRoute(call[1].route)) = 2

\* ------------------------------------------------------------ C8 (pages)

\* C8 as stated: on a table with no pages, a get_pages whose query failed
\* returned what a get_pages whose query succeeds returns.
C8_Original ==
    (last.op = "get_pages" /\ ~last.ok /\ pages = << >>) => last.ret = get_pages_ret(TRUE)

\* C8 as amended: get_pages returns None when its query fails and Some of the
\* list of all stored pages when it succeeds, which on a table with no pages
\* is Some of the empty list and differs from None: the caller can tell
\* "query failed" from "no pages".
C8_GetPages ==
    last.op = "get_pages" =>
        /\ last.ret = IF last.ok THEN Some(pages) ELSE None
        /\ last.ok => last.ret # None

\* get_pages succeeded on a table with no pages.
C8_Witness ==
    /\ last.op = "get_pages"
    /\ last.ok
    /\ pages = << >>
    /\ last.ret = Some(<< >>)

\* ----------------------------------------------------------- C10 (pages)

C10_RejectedOnlyIfListed ==
    \A p \in Procs :
        call[p].ret = Some(Err("PageAlreadyExists")) =>
            call[p].listing = "ok" /\ RowsWithRoute(call[p].route) # {}

C10_Steps ==
    \A p \in Procs :
        /\ (C_CheckStep(p) /\ call'[p].listing = "failed") =>
              call'[p].pc = "insert" /\ call'[p].ret = None
        /\ C_InsertStep(p) =>
              \/ call'[p].ret = Some(Ok(Unit)) /\ pages' = Append(pages, C_Row(p))
              \/ call'[p].ret = Some(Err("InternalServerError")) /\ pages' = pages

\* C10: insert_page returns PageAlreadyExists only after a successful listing
\* that holds the route; after a failed listing it goes on to the INSERT,
\* which stores the page and returns Ok also when the route is stored
\* already, or returns InternalServerError and stores nothing.
C10_FailedListingSkipsCheck == [](C10_RejectedOnlyIfListed) /\ [][C10_Steps]_vars

\* With no other caller ever active, a call whose listing failed returned Ok
\* and stored its route a second time.
C10_Witness ==
    /\ call[2] = NoCall
    /\ call[1].listing = "failed"
    /\ call[1].ret = Some(Ok(Unit))
    /\ Cardinality(RowsWithRoute(call[1].route)) = 2

\* -------------------------------------------------- C9 (all operations)

C9_ReadOps ==
    { "get_user_with_username", "get_user_with_email", "get_torrent_by_id",
      "get_all_torrent_ids", "get_valid_tracker_key", "verify_category",
      "get_pages", "get_page_by_route" }

C9_IsPrefix(s, t) == Len(s) <= Len(t) /\ \A i \in 1..Len(s) : t[i] = s[i]

C9_Step ==
    \* a stored torrent stays, and only update_tracker_info with its info hash
    \* changes it, in its seeder and leecher counts only
    /\ \A t \in torrents :
          \E t2 \in torrents' :
              /\ t2.torrent_id = t.torrent_id
              /\ [t2 EXCEPT !.seeders = t.seeders, !.leechers = t.leechers] = t
              /\ t2 # t =>
                    /\ last'.op = "update_tracker_info"
                    /\ last'.arg.info_hash = t.info_hash
                    /\ t2.seeders = last'.arg.seeders
                    /\ t2.leechers = last'.arg.leechers
    \* stored tracker keys, pages and categories stay as they are
    /\ C9_IsPrefix(tracker_keys, tracker_keys')
    /\ C9_IsPrefix(pages, pages')
    /\ categories' = categories
    \* a stored user stays as it is unless delete_user removes its row id
    /\ \A u \in users :
          u \notin users' =>
              /\ last'.op = "delete_user"
              /\ last'.arg = u.rowid
              /\ \A u2 \in users' : u2.rowid # u.rowid
    \* a read changes no table
    /\ last'.op \in C9_ReadOps => tables' = tables

\* C9: in every step, stored torrents, tracker keys, categories and pages
\* remain; the only change to a stored row is update_tracker_info setting the
\* seeder and leecher counts of the torrents with its info hash; the only row
\* removed is the user whose row id delete_user was given; every get_* and
\* verify_category leaves all tables unchanged.
C9_Frame == [][C9_Step]_vars

\* The stored user was deleted and then the stored torrent's counts updated.
C9_Witness ==
    /\ last.op = "update_tracker_info"
    /\ last.ok
    /\ users = {}
    /\ \E t \in torrents : t.torrent_id = 1 /\ t.seeders = 1 /\ t.leechers = 3

====
